---- MODULE Spec2Model ----
(***************************************************************************)
(* Model of game_agent.py (AIND-Isolation): the heuristic custom_score,    *)
(* the searches CustomPlayer.minimax and CustomPlayer.alphabeta, and the   *)
(* driver CustomPlayer.get_move with its Timeout handling.                 *)
(*                                                                         *)
(* The game is an ordered tree.  Node 1 is the board handed to get_move;   *)
(* par[n] is the board that node n was forecast from.  Nodes are numbered  *)
(* in preorder, so the children of a node in increasing order are its      *)
(* legal moves in enumeration order.  The move that leads to child c is    *)
(* the cell c.  The agent (self) is to move on even levels.                *)
(***************************************************************************)
EXTENDS Integers, Sequences, FiniteSets, TLC

\* ---------------------------------------------------------------- bounds
MaxNodes == 6          \* boards in a game tree of the search specification
MaxDepth == 3          \* depth argument of a search call
DriverNodes == 4       \* boards in a game tree of the driver specification
MaxSearchDepth == 2    \* search_depth of a constructed player
MaxTime == 8           \* first value reported by time_left()
MaxThreshold == 2      \* timeout argument of the constructor
BoardSide == 3         \* width and height of the board scored by custom_score
MaxMoves == 2          \* legal moves of a player on that board
Plenty == 1000         \* a remaining time no search of MaxNodes boards uses up

\* ------------------------------------------------------------- constants
NegInf == -9           \* float("-inf")
PosInf == 9            \* float("inf")
NoMove == -1           \* the move (-1, -1)
Finite == {-1, 0, 1}   \* finite heuristic values of a stub score_fn
ScoreSet == {NegInf, PosInf} \cup Finite
DriverScores == {0, 1} \* heuristic values of the stub score_fn given to get_move
Known == {"minimax", "alphabeta"}
MethodArgs == Known \cup {"negamax"}   \* method arguments a caller may pass
\* No board of a driver tree lies deeper than DriverNodes - 1 plies, so every
\* depth from DriverNodes on searches the same tree; depth_counter stays there.
MaxDepthCounter == DriverNodes + 1

VARIABLES
  entry,             \* which entry point of the file the behaviour exercises
  par, val,          \* game tree; val[n] is self.score(board n, self)
  \* CustomPlayer fields
  method, iterative, search_depth, TIMER_THRESHOLD,
  \* the time_left callable: the value its next call reports
  clock,
  \* get_move
  pc, move, score, depth_counter, ret,
  nqueries,          \* calls of time_left() since get_move was entered
  ncalls,            \* calls of minimax/alphabeta since get_move was entered
  log,               \* events of the search call made last
  last,              \* outcome of the search call made last
  ndone,             \* search calls of get_move that returned a result
  \* direct calls of the two searches on the same board
  depth, mmRes, abRes,
  \* custom_score
  board, outs

vars == <<entry, par, val, method, iterative, search_depth, TIMER_THRESHOLD,
          clock, pc, move, score, depth_counter, ret, nqueries, ncalls, log,
          last, ndone, depth, mmRes, abRes, board, outs>>

\* ------------------------------------------------------------- game tree
Nodes == DOMAIN par

RECURSIVE AncSelf(_, _)
AncSelf(p, n) == IF n = 1 THEN {1} ELSE {n} \cup AncSelf(p, p[n])

\* ordered trees with exactly n nodes, numbered in preorder
RECURSIVE TreesOf(_)
TreesOf(n) ==
  IF n = 1 THEN {<<0>>}
  ELSE UNION {{Append(p, q) : q \in AncSelf(p, n - 1)} : p \in TreesOf(n - 1)}

Trees(max) == UNION {TreesOf(n) : n \in 1..max}

RECURSIVE Level(_)
Level(n) == IF n = 1 THEN 0 ELSE 1 + Level(par[n])

\* game.get_legal_moves(): the moves of the active player, in order
get_legal_moves(game) ==
  SelectSeq([i \in 1..Len(par) |-> i], LAMBDA c : par[c] = game)

\* game.forecast_move(move): a new board, the argument is left as it is
forecast_move(game, m) == m

\* game.get_player_location(self): the cell self moved to last
RECURSIVE get_player_location(_)
get_player_location(game) ==
  IF game = 1 THEN 1
  ELSE IF Level(game) % 2 = 1 THEN game
  ELSE get_player_location(par[game])

\* ------------------------------------------------------- search plumbing
\* F(x), with x evaluated once before F reads it
With(x, F(_)) == CHOOSE y \in {F(v) : v \in {x}} : TRUE

\* st threads what a call reads and writes outside its arguments.
time_left(st) ==
  With(st, LAMBDA s :
    [v |-> s.clock, st |-> [s EXCEPT !.clock = @ - 1, !.nq = @ + 1]])

Emit(st, e) == [st EXCEPT !.log = Append(@, e)]

Event(ev, node, v, m) == [ev |-> ev, node |-> node, v |-> v, m |-> m]

Enter(st, game) == [st EXCEPT !.nc = @ + 1]

\* a check that also stops the search at exactly the threshold
TimedOutAtThreshold(t) == t <= TIMER_THRESHOLD

\* a check that lets the search go on one unit below the threshold
TimedOutLate(t) == t < TIMER_THRESHOLD - 1

TimedOut(t) == t < TIMER_THRESHOLD

\* raise Timeout(): no score and no move come with it
Raise(st, game) ==
  [timeout |-> TRUE, score |-> 0, move |-> NoMove,
   st |-> Emit(st, Event("raise", game, 0, NoMove))]

Return(st, game, s, m) ==
  [timeout |-> FALSE, score |-> s, move |-> m,
   st |-> Emit(st, Event("ret", game, s, m))]

\* self.score(game, self)
Score(st, game) ==
  [v |-> val[game], st |-> Emit(st, Event("score", game, val[game], NoMove))]

Max(a, b) == IF a >= b THEN a ELSE b
Min(a, b) == IF a <= b THEN a ELSE b

\* a comparison that lets a later move of equal score replace the kept one
BetterOrEqual(maximizing_player, new_score, best_score) ==
  IF maximizing_player THEN new_score >= best_score ELSE new_score <= best_score

Better(maximizing_player, new_score, best_score) ==
  IF maximizing_player THEN new_score > best_score ELSE new_score < best_score

\* ---------------------------------------------------------------- minimax
RECURSIVE minimax(_, _, _, _)
RECURSIVE minimax_loop(_, _, _, _, _, _, _, _)

\* the for loop of either branch: i is the next index into legal_moves
minimax_loop(game, d, maximizing_player, legal_moves, i, best_score, best_move, st) ==
  IF i > Len(legal_moves) THEN Return(st, game, best_score, best_move)
  ELSE
    With(minimax(forecast_move(game, legal_moves[i]), d - 1, ~maximizing_player,
                 Emit(st, Event("forecast", game, 0, legal_moves[i]))),
         LAMBDA r :
           IF r.timeout THEN r
           ELSE IF Better(maximizing_player, r.score, best_score)
                THEN minimax_loop(game, d, maximizing_player, legal_moves,
                                  i + 1, r.score, legal_moves[i], r.st)
                ELSE minimax_loop(game, d, maximizing_player, legal_moves,
                                  i + 1, best_score, best_move, r.st))

minimax(game, d, maximizing_player, st0) ==
  With(time_left(Enter(st0, game)), LAMBDA t :
    LET st1 == Emit(t.st, Event("time", game, t.v, NoMove))
    IN IF TimedOut(t.v) THEN Raise(st1, game)
       ELSE
         LET legal_moves == get_legal_moves(game)
             st2 == Emit(st1, Event("moves", game, Len(legal_moves), NoMove))
         IN IF d < 1 \/ Len(legal_moves) = 0
            THEN With(Score(st2, game), LAMBDA s :
                   Return(s.st, game, s.v, get_player_location(game)))
            ELSE minimax_loop(game, d, maximizing_player, legal_moves, 1,
                              IF maximizing_player THEN NegInf ELSE PosInf,
                              legal_moves[1], st2))

\* -------------------------------------------------------------- alphabeta
RECURSIVE alphabeta(_, _, _, _, _, _)
RECURSIVE alphabeta_loop(_, _, _, _, _, _, _, _, _, _)

\* a cut-off taken one score too early
CutEarly(alpha, beta) == beta <= alpha + 1

Cut(alpha, beta) == beta <= alpha

\* the for loop of either branch, with its update of alpha or beta and its break
alphabeta_loop(game, d, alpha, beta, maximizing_player, legal_moves, i, best_score, best_move, st) ==
  IF i > Len(legal_moves) THEN Return(st, game, best_score, best_move)
  ELSE
    With(alphabeta(forecast_move(game, legal_moves[i]), d - 1, alpha, beta,
                   ~maximizing_player,
                   Emit(st, Event("forecast", game, 0, legal_moves[i]))),
         LAMBDA r :
           IF r.timeout THEN r
           ELSE
             With(IF Better(maximizing_player, r.score, best_score)
                  THEN <<r.score, legal_moves[i]>>
                  ELSE <<best_score, best_move>>,
                  LAMBDA best :
                    With(IF maximizing_player
                         THEN <<Max(alpha, best[1]), beta>>
                         ELSE <<alpha, Min(beta, best[1])>>,
                         LAMBDA w :
                           IF Cut(w[1], w[2])
                           THEN Return(r.st, game, best[1], best[2])   \* break
                           ELSE alphabeta_loop(game, d, w[1], w[2],
                                               maximizing_player, legal_moves,
                                               i + 1, best[1], best[2], r.st))))

alphabeta(game, d, alpha, beta, maximizing_player, st0) ==
  With(time_left(Enter(st0, game)), LAMBDA t :
    LET st1 == Emit(t.st, Event("time", game, t.v, NoMove))
    IN IF TimedOut(t.v) THEN Raise(st1, game)
       ELSE
         LET legal_moves == get_legal_moves(game)
             st2 == Emit(st1, Event("moves", game, Len(legal_moves), NoMove))
         IN IF d < 1 \/ Len(legal_moves) = 0
            THEN With(Score(st2, game), LAMBDA s :
                   Return(s.st, game, s.v, get_player_location(game)))
            ELSE alphabeta_loop(game, d, alpha, beta, maximizing_player,
                                legal_moves, 1,
                                IF maximizing_player THEN NegInf ELSE PosInf,
                                legal_moves[1], st2))

\* the state a call starts from: an empty log and the counters so far
Fresh(c, nq, nc) == [clock |-> c, nq |-> nq, nc |-> nc, log |-> <<>>]

None == [called |-> FALSE]
Outcome(r) ==
  [called |-> TRUE, timeout |-> r.timeout, score |-> r.score, move |-> r.move,
   log |-> r.st.log]

\* ====================================================== search specification
\* minimax and alphabeta called directly on the same board, depth and score_fn

\* the boards a search of depth d evaluates: those d plies down and the
\* boards without a move above them
Frontier(p, d) ==
  LET RECURSIVE Lv(_)
      Lv(n) == IF n = 1 THEN 0 ELSE 1 + Lv(p[n])
      IsLeaf(n) == \A c \in DOMAIN p : p[c] # n
  IN {n \in DOMAIN p : Lv(n) = d \/ (Lv(n) < d /\ IsLeaf(n))}

Idle ==
  /\ method = "minimax" /\ iterative = FALSE /\ search_depth = 1
  /\ pc = "idle" /\ move = NoMove /\ score = 0 /\ depth_counter = 1
  /\ ret = NoMove /\ nqueries = 0 /\ ncalls = 0 /\ log = <<>>
  /\ last = None /\ ndone = 0

NoBoard == board = [is_loser |-> FALSE] /\ outs = <<>>

InitSearch ==
  /\ entry = "search"
  /\ par \in Trees(MaxNodes)
  /\ depth \in 1..MaxDepth
  /\ \E f \in [Frontier(par, depth) -> ScoreSet] :
       val = [n \in DOMAIN par |-> IF n \in DOMAIN f THEN f[n] ELSE 0]
  /\ TIMER_THRESHOLD = 1
  /\ clock = Plenty
  /\ mmRes = None /\ abRes = None
  /\ Idle /\ NoBoard

CallMinimax ==
  /\ entry = "search" /\ ~mmRes.called
  /\ \E r \in {minimax(1, depth, TRUE, Fresh(clock, 0, 0))} :
       mmRes' = Outcome(r)
  /\ UNCHANGED <<entry, par, val, method, iterative, search_depth,
                 TIMER_THRESHOLD, clock, pc, move, score, depth_counter, ret,
                 nqueries, ncalls, log, last, ndone, depth, abRes, board, outs>>

CallAlphabeta ==
  /\ entry = "search" /\ ~abRes.called
  /\ \E r \in {alphabeta(1, depth, NegInf, PosInf, TRUE, Fresh(clock, 0, 0))} :
       abRes' = Outcome(r)
  /\ UNCHANGED <<entry, par, val, method, iterative, search_depth,
                 TIMER_THRESHOLD, clock, pc, move, score, depth_counter, ret,
                 nqueries, ncalls, log, last, ndone, depth, mmRes, board, outs>>

NextSearch == CallMinimax \/ CallAlphabeta

SearchSpec == InitSearch /\ [][NextSearch]_vars

\* C1: with no timeout, alphabeta called at the root with the window
\* (-inf, +inf) returns the same score and the same move as minimax called on
\* the same board with the same depth.
C1_AlphabetaEqualsMinimax ==
  (mmRes.called /\ abRes.called /\ ~mmRes.timeout /\ ~abRes.timeout)
    => (abRes.score = mmRes.score /\ abRes.move = mmRes.move)

\* a state where both searches returned and alphabeta pruned something
C1_Witness ==
  /\ mmRes.called /\ abRes.called /\ ~mmRes.timeout /\ ~abRes.timeout
  /\ Len(abRes.log) < Len(mmRes.log)
  /\ Len(get_legal_moves(1)) >= 2
  /\ mmRes.score \in Finite

\* the depth-d minimax value of board n, leaves scored by self.score
RECURSIVE Value(_, _)
Value(n, d) ==
  LET kids == {c \in Nodes : par[c] = n}
      vs == {Value(c, d - 1) : c \in kids}
  IN IF d < 1 \/ kids = {} THEN val[n]
     ELSE IF Level(n) % 2 = 0
          THEN CHOOSE v \in vs : \A w \in vs : w <= v
          ELSE CHOOSE v \in vs : \A w \in vs : v <= w

\* the earliest-enumerated move of board n that attains Value(n, d)
EarliestBest(n, d) ==
  LET kids == {c \in Nodes : par[c] = n}
      best == {c \in kids : Value(c, d - 1) = Value(n, d)}
  IN CHOOSE c \in best : \A b \in best : c <= b

\* the depth a call on board n has when the root call has depth d
DepthAt(n, d) == d - Level(n)

\* C9: with no timeout, every minimax call with depth >= 1 on a board with a
\* legal move returns the exact minimax value of that depth (max on the
\* agent's layers, min on the opponent's) with the earliest-enumerated move
\* that attains it; when every child scores -inf on a maximizing layer (+inf
\* on a minimizing one) that move is the first legal move.
C9_MinimaxExactEarliest ==
  (mmRes.called /\ ~mmRes.timeout) =>
    \A i \in 1..Len(mmRes.log) :
      LET e == mmRes.log[i]
          d == DepthAt(e.node, depth)
          legal_moves == get_legal_moves(e.node)
          worst == IF Level(e.node) % 2 = 0 THEN NegInf ELSE PosInf
      IN (e.ev = "ret" /\ d >= 1 /\ Len(legal_moves) > 0) =>
           /\ e.v = Value(e.node, d)
           /\ e.m = EarliestBest(e.node, d)
           /\ (e.v = worst => e.m = legal_moves[1])

\* minimax returned from a board whose two or more moves tie at a finite
\* value, with a minimizing layer below the root that had a choice to make
C9_Witness ==
  /\ mmRes.called /\ ~mmRes.timeout /\ depth >= 2
  /\ Len(get_legal_moves(1)) >= 2
  /\ \A c \in {2} : Len(get_legal_moves(c)) >= 2
  /\ Cardinality({c \in Nodes : par[c] = 1 /\ Value(c, depth - 1) = mmRes.score}) >= 2
  /\ mmRes.move = get_legal_moves(1)[1]
  /\ mmRes.score \in Finite

\* every child of the root scores -inf and minimax returned the first move
C9_WitnessAllWorst ==
  /\ mmRes.called /\ ~mmRes.timeout
  /\ Len(get_legal_moves(1)) >= 2
  /\ mmRes.score = NegInf
  /\ mmRes.move = get_legal_moves(1)[1]

\* ======================================================= score specification
\* custom_score called twice on one board for one player.  A finite score is
\* kept as its three terms: it stands for mob + sqrt(opp_d2) - sqrt(own_d2).
Infinite(sign) ==
  [kind |-> "inf", sign |-> sign, mob |-> 0, opp_d2 |-> 0, own_d2 |-> 0]

diff_distance_from_mid(game) ==
  LET mid_row == game.width \div 2
      mid_col == game.height \div 2
      own_row_diff == (game.own[1] - mid_row) * (game.own[1] - mid_row)
      own_col_diff == (game.own[2] - mid_col) * (game.own[2] - mid_col)
      opp_row_diff == (game.opp[1] - mid_row) * (game.opp[1] - mid_row)
      opp_col_diff == (game.opp[2] - mid_col) * (game.opp[2] - mid_col)
  IN [kind |-> "finite", sign |-> 0,
      mob |-> game.own_moves - game.opp_moves,
      opp_d2 |-> opp_row_diff + opp_col_diff,
      own_d2 |-> own_row_diff + own_col_diff]

\* a custom_score that asks is_winner before is_loser
custom_score_winner_first(game) ==
  IF game.is_winner THEN Infinite(1)
  ELSE IF game.is_loser THEN Infinite(-1)
  ELSE diff_distance_from_mid(game)

custom_score(game) ==
  IF game.is_loser THEN Infinite(-1)
  ELSE IF game.is_winner THEN Infinite(1)
  ELSE diff_distance_from_mid(game)

Cells == (0..(BoardSide - 1)) \X (0..(BoardSide - 1))

InitScore ==
  /\ entry = "custom_score"
  /\ board \in [is_loser : BOOLEAN, is_winner : BOOLEAN,
                width : {BoardSide}, height : {BoardSide},
                own : Cells, opp : Cells,
                own_moves : 0..MaxMoves, opp_moves : 0..MaxMoves]
  /\ board.own # board.opp
  /\ outs = <<>>
  /\ par = <<0>> /\ val = <<0>> /\ depth = 1
  /\ TIMER_THRESHOLD = 1 /\ clock = 0
  /\ mmRes = None /\ abRes = None
  /\ Idle

CallScore ==
  /\ entry = "custom_score" /\ Len(outs) < 2
  /\ outs' = Append(outs, custom_score(board))
  /\ UNCHANGED <<entry, par, val, method, iterative, search_depth,
                 TIMER_THRESHOLD, clock, pc, move, score, depth_counter, ret,
                 nqueries, ncalls, log, last, ndone, depth, mmRes, abRes, board>>

NextScore == CallScore

ScoreSpec == InitScore /\ [][NextScore]_vars

Construct(sd, it, m, to) ==
  /\ search_depth = sd
  /\ iterative = it
  /\ method = m
  /\ TIMER_THRESHOLD = to

Init ==
  /\ entry = "get_move"
  /\ \E sd \in 1..MaxSearchDepth, it \in BOOLEAN, m \in MethodArgs,
        to \in 1..MaxThreshold : Construct(sd, it, m, to)
  /\ par \in Trees(DriverNodes)
  /\ val \in [DOMAIN par -> DriverScores]
  /\ clock \in 0..MaxTime
  /\ pc = "idle" /\ move = NoMove /\ score = 0 /\ depth_counter = 1
  /\ ret = NoMove /\ nqueries = 0 /\ ncalls = 0 /\ log = <<>>
  /\ last = None /\ ndone = 0
  /\ depth = 1 /\ mmRes = None /\ abRes = None
  /\ NoBoard

\* the search get_move calls for a recognized method
Search(m, d, st) ==
  IF m = "minimax" THEN minimax(1, d, TRUE, st)
  ELSE alphabeta(1, d, NegInf, PosInf, TRUE, st)

\* a get_move that goes into the try statement without a legal move
GetMoveNoGuard ==
  /\ entry = "get_move" /\ pc = "idle"
  /\ pc' = "try"
  /\ move' = IF Len(get_legal_moves(1)) = 0 THEN NoMove ELSE get_legal_moves(1)[1]
  /\ score' = val[1]
  /\ UNCHANGED <<entry, par, val, method, iterative, search_depth,
                 TIMER_THRESHOLD, clock, depth_counter, nqueries, ncalls, log,
                 last, ndone, depth, mmRes, abRes, board, outs, ret>>

\* get_move up to the try statement
GetMove ==
  /\ entry = "get_move" /\ pc = "idle"
  /\ LET legal_moves == get_legal_moves(1)
     IN IF Len(legal_moves) = 0
        THEN /\ pc' = "done"
             /\ ret' = NoMove
             /\ UNCHANGED <<move, score>>
        ELSE /\ pc' = "try"
             /\ move' = legal_moves[1]
             /\ score' = val[1]
             /\ UNCHANGED ret
  /\ UNCHANGED <<entry, par, val, method, iterative, search_depth,
                 TIMER_THRESHOLD, clock, depth_counter, nqueries, ncalls, log,
                 last, ndone, depth, mmRes, abRes, board, outs>>

\* an except clause that hands back the move of the call that returned last
\* inside the interrupted search
Leaky(r) ==
  LET rets == {i \in 1..Len(r.st.log) : r.st.log[i].ev = "ret"}
  IN IF rets = {} THEN move
     ELSE r.st.log[CHOOSE i \in rets : \A j \in rets : j <= i].m

\* what the except clause returns: the move recorded before the search
OnTimeout(r) == move

\* the body of the while loop up to the search call, and the except clause
\* when that call raises; with a method that is neither name no branch runs
Iterate ==
  /\ entry = "get_move" /\ pc = "try" /\ iterative
  /\ IF method \in Known
     THEN \E r \in {Search(method, depth_counter, Fresh(clock, nqueries, ncalls))} :
             /\ clock' = r.st.clock
             /\ nqueries' = r.st.nq
             /\ ncalls' = r.st.nc
             /\ log' = r.st.log
             /\ last' = Outcome(r)
             /\ IF r.timeout
                THEN /\ pc' = "done"
                     /\ ret' = OnTimeout(r)
                     /\ UNCHANGED <<move, score, ndone>>
                ELSE /\ pc' = "next"
                     /\ score' = r.score
                     /\ move' = r.move
                     /\ ndone' = ndone + 1
                     /\ UNCHANGED ret
     ELSE /\ pc' = "next"
          /\ UNCHANGED <<clock, nqueries, ncalls, log, last, ret, move, score,
                         ndone>>
  /\ UNCHANGED <<entry, par, val, method, iterative, search_depth,
                 TIMER_THRESHOLD, depth_counter, depth, mmRes, abRes, board, outs>>

\* depth_counter += 1, and back to the head of the loop
NextDepth ==
  /\ entry = "get_move" /\ pc = "next"
  /\ pc' = "try"
  /\ depth_counter' = IF depth_counter < MaxDepthCounter
                      THEN depth_counter + 1
                      ELSE depth_counter
  /\ UNCHANGED <<entry, par, val, method, iterative, search_depth,
                 TIMER_THRESHOLD, clock, move, score, ret, nqueries, ncalls,
                 log, last, ndone, depth, mmRes, abRes, board, outs>>

\* the else branch of the try statement, the except clause and the final return
FixedDepth ==
  /\ entry = "get_move" /\ pc = "try" /\ ~iterative
  /\ pc' = "done"
  /\ IF method \in Known
     THEN \E r \in {Search(method, search_depth, Fresh(clock, nqueries, ncalls))} :
             /\ clock' = r.st.clock
             /\ nqueries' = r.st.nq
             /\ ncalls' = r.st.nc
             /\ log' = r.st.log
             /\ last' = Outcome(r)
             /\ IF r.timeout
                THEN /\ ret' = OnTimeout(r)
                     /\ UNCHANGED <<move, score, ndone>>
                ELSE /\ score' = r.score
                     /\ move' = r.move
                     /\ ret' = r.move
                     /\ ndone' = ndone + 1
     ELSE /\ ret' = move
          /\ UNCHANGED <<clock, nqueries, ncalls, log, last, move, score, ndone>>
  /\ UNCHANGED <<entry, par, val, method, iterative, search_depth,
                 TIMER_THRESHOLD, depth_counter, depth, mmRes, abRes, board, outs>>

Next == GetMove \/ Iterate \/ NextDepth \/ FixedDepth

Spec == Init /\ [][Next]_vars

\* the interpreter runs get_move on without pause until it returns
FairSpec == Spec /\ WF_vars(Next)

\* ------------------------------------------------------------ driver claims
Returned == entry = "get_move" /\ pc = "done"

\* the value time_left() reported at its first call, or will report
FirstReport == clock + nqueries

\* the result of the search of depth d on the root when time never runs out
Unhurried(m, d) == Search(m, d, Fresh(Plenty, 0, 0))

\* C2: a get_move that a Timeout interrupts returns the move of the deepest
\* search that returned, or the first legal move when none returned; nothing
\* of the interrupted search reaches the returned move.
C2_TimeoutReturnsLastCompleted ==
  (Returned /\ last.called /\ last.timeout) =>
    ret = IF ndone = 0 THEN get_legal_moves(1)[1]
          ELSE Unhurried(method, ndone).move

\* get_move was interrupted in its third search, inside a call below the
\* root that had already got results back, and the move it returned is not
\* the first legal move
C2_Witness ==
  /\ Returned /\ last.called /\ last.timeout /\ ndone = 2
  /\ \E i \in 1..Len(log) : log[i].ev = "ret"
  /\ ret # get_legal_moves(1)[1]

\* get_move was interrupted before any search returned
C2_WitnessNone ==
  /\ Returned /\ last.called /\ last.timeout /\ ndone = 0
  /\ \E i \in 1..Len(log) : log[i].ev = "ret"

\* C3: get_move with no legal move returns (-1, -1), calls neither search
\* and never calls time_left.
C3_EmptyMovesNoSearchNoClock ==
  (Returned /\ Len(get_legal_moves(1)) = 0) =>
    (ret = NoMove /\ ncalls = 0 /\ nqueries = 0 /\ ~last.called)

C3_Witness ==
  /\ Returned /\ Len(get_legal_moves(1)) = 0 /\ ret = NoMove
  /\ clock >= TIMER_THRESHOLD /\ iterative

\* C4: with a legal move and a first report of time_left below the
\* threshold, get_move returns the first legal move in either mode and with
\* either method, and only the root call of the search is made.
C4_FirstCheckFailsFallback ==
  (/\ Returned
   /\ Len(get_legal_moves(1)) > 0
   /\ method \in Known
   /\ FirstReport < TIMER_THRESHOLD) =>
    (ret = get_legal_moves(1)[1] /\ ncalls = 1 /\ nqueries = 1)

C4_Witness ==
  /\ Returned /\ Len(get_legal_moves(1)) > 1 /\ method = "alphabeta"
  /\ FirstReport < TIMER_THRESHOLD /\ FirstReport > 0
  /\ ret = get_legal_moves(1)[1] /\ ncalls = 1

\* C5: every search call that returns gives a move that is a legal move of
\* the board it was called on, or (-1, -1) when that board has none; calls
\* that end in the leaf branch included.
C5_MoveLegalOrSentinel ==
  \A i \in 1..Len(log) :
    LET e == log[i]
        legal_moves == get_legal_moves(e.node)
    IN e.ev = "ret" =>
         IF Len(legal_moves) = 0 THEN e.m = NoMove
         ELSE \E k \in 1..Len(legal_moves) : e.m = legal_moves[k]

\* C6: a method name other than 'minimax' and 'alphabeta' is rejected when
\* the player is constructed, so no get_move runs with such a method.
C6_UnknownMethodNeverRuns ==
  pc # "idle" => method \in Known

\* C7 as stated: a call goes on only if the time reported exceeds the
\* threshold; a report equal to or below it raises Timeout.
C7_ProceedsOnlyAboveThreshold ==
  \A i \in 1..Len(log) :
    log[i].ev = "time" =>
      IF log[i].v > TIMER_THRESHOLD
      THEN i < Len(log) /\ log[i + 1].ev = "moves"
      ELSE i + 1 = Len(log) /\ log[i + 1].ev = "raise"

\* C7 (amended): every call of minimax and alphabeta, leaf calls included,
\* asks time_left before it enumerates moves, applies a move or scores the
\* board; it goes on when the report is at least the threshold and raises
\* Timeout, ending the whole search without a result, when it is below.
C7_ChecksTimeFirst ==
  /\ Len(log) > 0 => (log[1].ev = "time" /\ log[1].node = 1)
  /\ \A i \in 1..Len(log) :
       LET e == log[i]
       IN /\ e.ev \in {"moves", "score", "forecast"} =>
               \E j \in 1..(i - 1) :
                 /\ log[j].ev = "time" /\ log[j].node = e.node
                 /\ log[j].v >= TIMER_THRESHOLD
          /\ e.ev = "forecast" =>
               (log[i + 1].ev = "time" /\ log[i + 1].node = e.m)
          /\ e.ev = "time" =>
               IF e.v >= TIMER_THRESHOLD
               THEN /\ i < Len(log)
                    /\ log[i + 1].ev = "moves" /\ log[i + 1].node = e.node
               ELSE /\ i + 1 = Len(log)
                    /\ log[i + 1].ev = "raise"
                    /\ last.timeout

\* a search in which a leaf call was told exactly the threshold and scored
\* its board, and a later call was told less and raised
C7_Witness ==
  /\ last.called /\ last.timeout
  /\ \E i \in 1..Len(log) :
       /\ log[i].ev = "time" /\ log[i].v = TIMER_THRESHOLD /\ log[i].node # 1
       /\ i + 2 <= Len(log) /\ log[i + 2].ev = "score"
  /\ log[Len(log)].ev = "raise"

\* C10: for every player the constructor accepts and a time_left that falls
\* by a fixed amount at each call, get_move eventually returns a move; in
\* iterative mode it does so at whatever depth, as every pass asks the clock.
C10_GetMoveReturns == <>(pc = "done")

\* with one of the two method names get_move does return
C10_KnownMethodReturns == <>(pc = "done" \/ method \notin Known)

====
